---- MODULE Spec2Model ----
(***************************************************************************)
(* Stock split checker: the batch classification of reverse splits         *)
(* (ai_handler.py, and the older single-file script init.py) and the run   *)
(* of the orchestrator (run_split_checker.py, init.py).                    *)
(*                                                                         *)
(* A Python str is modelled as a sequence of tokens (a Text): the words    *)
(* and the punctuation the parser looks at.  Words are chosen so that no   *)
(* word is a prefix or a substring of another, hence startswith, `in`,     *)
(* split and strip on tokens agree with the same operations on characters. *)
(***************************************************************************)
EXTENDS Naturals, Integers, Sequences, FiniteSets, TLC

\* ------------------------------------------------------------------ bounds
\* Largest number of lines in a response of the service.
MaxLines == 2
\* Largest number of candidates handed to get_batch_ai_validation directly.
MaxCandidates == 2
\* Largest number of rows scraped in a run.
MaxRows == 2

\* --------------------------------------------------------- str operations
SP == " "
NL == "\n"
\* str.strip() removes these from both ends.
Whitespace == {SP, NL}

Range(s) == {s[i] : i \in 1..Len(s)}

RECURSIVE LStrip(_)
LStrip(s) == IF s # <<>> /\ Head(s) \in Whitespace THEN LStrip(Tail(s)) ELSE s

RECURSIVE RStrip(_)
RStrip(s) ==
    IF s # <<>> /\ s[Len(s)] \in Whitespace THEN RStrip(SubSeq(s, 1, Len(s) - 1)) ELSE s

\* str.strip()
Strip(s) == RStrip(LStrip(s))

\* str.startswith(p)
StartsWith(s, p) == Len(p) <= Len(s) /\ SubSeq(s, 1, Len(p)) = p

\* s[n:] for n >= 0
Drop(s, n) == SubSeq(s, n + 1, Len(s))

\* str.find(p): the first index (from 1) where p occurs in s, 0 when none.
Find(s, p) ==
    LET hits == {i \in 1..(Len(s) + 1) : i + Len(p) - 1 <= Len(s) /\ SubSeq(s, i, i + Len(p) - 1) = p}
    IN  IF hits = {} THEN 0 ELSE CHOOSE i \in hits : \A j \in hits : i <= j

\* p in s
Contains(s, p) == Find(s, p) # 0

\* s.split(sep, 1): one part when sep does not occur, else the text before
\* the first sep and the text after it.
Split1(s, sep) ==
    LET i == Find(s, sep)
    IN  IF i = 0 THEN <<s>> ELSE <<SubSeq(s, 1, i - 1), Drop(s, i + Len(sep) - 1)>>

\* str.splitlines(): lines are ended by a newline; a final line without a
\* newline counts, an empty rest after the last newline does not.
RECURSIVE SplitLines(_)
SplitLines(s) ==
    IF s = <<>> THEN <<>>
    ELSE LET i == Find(s, <<NL>>)
         IN  IF i = 0 THEN <<s>> ELSE <<SubSeq(s, 1, i - 1)>> \o SplitLines(Drop(s, i))

\* ------------------------------------------------------------- config.py
OUTPUT_ROUND_UP == <<"Rounding", SP, "Up", SP, "Likely">>
OUTPUT_CASH == <<"Cash-in-Lieu", SP, "Likely">>
OUTPUT_UNKNOWN == <<"Unable", SP, "to", SP, "Determine">>
CLASSIFICATION_PHRASES == <<OUTPUT_ROUND_UP, OUTPUT_CASH, OUTPUT_UNKNOWN>>

\* ---------------------------------------------------------- ai_handler.py
\* The sentinel strings of the classification stage.
AI_RESPONSE_MISSING == <<"AI Response Missing">>
AI_RESPONSE_UNCLEAR == <<"AI Response Unclear">>
AI_API_ERROR == <<"AI API Error">>
REASONING_NOT_PROVIDED == <<"(Reasoning not distinctly separated or provided)">>
FALLBACK_REASONING == <<"(Fallback Parse - Reasoning unclear)">>

\* A value of the result mapping or of a record's classification field:
\* a dict {'result': ..., 'reasoning': ...} or a plain str.
DictVal(result, reasoning) == [tag |-> "dict", result |-> result, reasoning |-> reasoning]
StrVal(s) == [tag |-> "str", result |-> s, reasoning |-> <<>>]

EmptyMap == [t \in {} |-> StrVal(<<>>)]

\* d[k] = v on a dict
MapSet(m, k, v) == [x \in DOMAIN m \cup {k} |-> IF x = k THEN v ELSE m[x]]

\* The separators tried with the single pipe before "| Reasoning:".
ExtractReasoning_PipeFirst(potential_reasoning) ==
    IF StartsWith(potential_reasoning, <<"|">>)
        THEN Strip(Drop(potential_reasoning, 1))
    ELSE IF StartsWith(potential_reasoning, <<"Reasoning", ":">>)
        THEN Strip(Drop(potential_reasoning, 2))
    ELSE IF StartsWith(potential_reasoning, <<"-">>)
        THEN Strip(Drop(potential_reasoning, 1))
    ELSE IF potential_reasoning # <<>>
        THEN potential_reasoning
    ELSE <<"(Reasoning not distinctly separated or provided)">>

\* Lines 137-143: the reasoning kept after a phrase found at the start.
ExtractReasoning(potential_reasoning) ==
    IF StartsWith(potential_reasoning, <<"|", SP, "Reasoning", ":">>)
        THEN Strip(Drop(potential_reasoning, 4))
    ELSE IF StartsWith(potential_reasoning, <<"|">>)
        THEN Strip(Drop(potential_reasoning, 1))
    ELSE IF StartsWith(potential_reasoning, <<"Reasoning", ":">>)
        THEN Strip(Drop(potential_reasoning, 2))
    ELSE IF StartsWith(potential_reasoning, <<"-">>)
        THEN Strip(Drop(potential_reasoning, 1))
    ELSE IF potential_reasoning # <<>>
        THEN potential_reasoning
    ELSE REASONING_NOT_PROVIDED

\* Lines 134-144: the first phrase of CLASSIFICATION_PHRASES the remainder
\* starts with (0 when none).
FirstPhraseAtStart(rest_of_line) ==
    LET hits == {k \in 1..Len(CLASSIFICATION_PHRASES) : StartsWith(rest_of_line, CLASSIFICATION_PHRASES[k])}
    IN  IF hits = {} THEN 0 ELSE CHOOSE k \in hits : \A j \in hits : k <= j

\* Lines 146-153: the first phrase of CLASSIFICATION_PHRASES the remainder
\* contains (0 when none).
FirstPhraseContained(rest_of_line) ==
    LET hits == {k \in 1..Len(CLASSIFICATION_PHRASES) : Contains(rest_of_line, CLASSIFICATION_PHRASES[k])}
    IN  IF hits = {} THEN 0 ELSE CHOOSE k \in hits : \A j \in hits : k <= j

\* The parse of a remainder that drops the text of an unclear answer.
ParseRest_UnclearDropsText(rest_of_line) ==
    LET k == FirstPhraseAtStart(rest_of_line)
        c == FirstPhraseContained(rest_of_line)
    IN  IF k # 0
            THEN LET phrase == CLASSIFICATION_PHRASES[k]
                 IN  DictVal(phrase, ExtractReasoning(Strip(Drop(rest_of_line, Len(phrase)))))
        ELSE IF c # 0
            THEN LET phrase == CLASSIFICATION_PHRASES[c]
                     reasoning_parts == Split1(rest_of_line, phrase)
                 IN  DictVal(phrase, IF Len(reasoning_parts) > 1
                                         THEN Strip(reasoning_parts[2])
                                         ELSE FALLBACK_REASONING)
        ELSE DictVal(AI_RESPONSE_UNCLEAR, <<>>)

\* Lines 132-153: the dict parsed from the remainder of a line.
ParseRest(rest_of_line) ==
    LET k == FirstPhraseAtStart(rest_of_line)
        c == FirstPhraseContained(rest_of_line)
    IN  IF k # 0
            THEN LET phrase == CLASSIFICATION_PHRASES[k]
                 IN  DictVal(phrase, ExtractReasoning(Strip(Drop(rest_of_line, Len(phrase)))))
        ELSE IF c # 0
            THEN LET phrase == CLASSIFICATION_PHRASES[c]
                     reasoning_parts == Split1(rest_of_line, phrase)
                 IN  DictVal(phrase, IF Len(reasoning_parts) > 1
                                         THEN Strip(reasoning_parts[2])
                                         ELSE FALLBACK_REASONING)
        ELSE DictVal(AI_RESPONSE_UNCLEAR, rest_of_line)

\* One iteration of the loop without the membership check of line 130.
ParseLine_NoMembership(ai_results_map, raw_line, tickers_sent) ==
    LET line == Strip(raw_line)
        parts == Split1(line, <<":">>)
    IN  IF line = <<>> THEN ai_results_map
        ELSE IF Len(parts) < 2 THEN ai_results_map
        ELSE MapSet(ai_results_map, Strip(parts[1]), ParseRest(Strip(parts[2])))

\* Lines 124-155, one iteration of the loop over the response lines.
ParseLine(ai_results_map, raw_line, tickers_sent) ==
    LET line == Strip(raw_line)
        parts == Split1(line, <<":">>)
    IN  IF line = <<>> THEN ai_results_map
        ELSE IF Len(parts) < 2 THEN ai_results_map
        ELSE LET ticker_from_ai == Strip(parts[1])
                 rest_of_line == Strip(parts[2])
             IN  IF ticker_from_ai \notin Range(tickers_sent) THEN ai_results_map
                 ELSE MapSet(ai_results_map, ticker_from_ai, ParseRest(rest_of_line))

RECURSIVE ParseLines(_, _, _)
ParseLines(ai_results_map, response_lines, tickers_sent) ==
    IF response_lines = <<>> THEN ai_results_map
    ELSE ParseLines(ParseLine(ai_results_map, Head(response_lines), tickers_sent),
                    Tail(response_lines), tickers_sent)

\* Lines 120-158: the parse of a response text.
ParseResponse(response_text, tickers_sent) ==
    ParseLines([t \in Range(tickers_sent) |-> DictVal(AI_RESPONSE_MISSING, <<>>)],
               SplitLines(response_text), tickers_sent)

\* Lines 92-99: the tickers of the candidates, in the order sent.
TickersSent(reverse_split_list) ==
    [i \in 1..Len(reverse_split_list) |-> reverse_split_list[i].ticker]

\* The failed call answered like an empty response.
ApiErrorMap_AsMissing(tickers_sent) ==
    [t \in Range(tickers_sent) |-> DictVal(<<"AI Response Missing">>, <<>>)]

\* Line 116: the mapping returned when the call fails.
ApiErrorMap(tickers_sent) == [t \in Range(tickers_sent) |-> DictVal(AI_API_ERROR, <<>>)]

\* Lines 31-46: log_ai_response appends one entry; a failed write is caught.
log_ai_response(log, tickers_requested, raw_response_text, write_ok) ==
    IF write_ok
        THEN Append(log, [tickers_requested |-> tickers_requested,
                          raw_response_text |-> raw_response_text])
        ELSE log

\* What the service does with one batch: the model object cannot be created,
\* generate_content raises, the response has no text (response.text raises),
\* or a text comes back.
SvcModelError == [kind |-> "model_error", text |-> <<>>]
SvcCallError == [kind |-> "call_error", text |-> <<>>]
SvcNoText == [kind |-> "no_text", text |-> <<>>]
SvcText(text) == [kind |-> "text", text |-> text]

SvcNone == [kind |-> "none", text |-> <<>>]

\* Lines 49-158: get_batch_ai_validation.  raised: an exception leaves the
\* function; map: the mapping returned; calls: generate_content calls issued;
\* log: the audit log after; service: what the service did, SvcNone when the
\* function returned before it created the model object.
Outcome(raised, map, calls, log, svc) ==
    [raised |-> raised, map |-> map, calls |-> calls, log |-> log, service |-> svc]

\* get_batch_ai_validation without the check of line 54.
get_batch_ai_validation_Unguarded(is_configured, reverse_split_list, svc, log, write_ok) ==
    LET tickers_sent == TickersSent(reverse_split_list)
    IN  IF reverse_split_list = <<>> THEN Outcome(FALSE, EmptyMap, 0, log, SvcNone)
        ELSE IF svc.kind = "model_error" THEN Outcome(TRUE, EmptyMap, 0, log, svc)
        ELSE IF svc.kind \in {"call_error", "no_text"}
            THEN Outcome(FALSE, ApiErrorMap(tickers_sent), 1, log, svc)
        ELSE Outcome(FALSE, ParseResponse(svc.text, tickers_sent), 1,
                     log_ai_response(log, tickers_sent, svc.text, write_ok), svc)

\* get_batch_ai_validation with a second attempt after a failed call.
get_batch_ai_validation_Retry(is_configured, reverse_split_list, svc, log, write_ok) ==
    LET tickers_sent == TickersSent(reverse_split_list)
    IN  IF ~is_configured THEN Outcome(FALSE, EmptyMap, 0, log, SvcNone)
        ELSE IF reverse_split_list = <<>> THEN Outcome(FALSE, EmptyMap, 0, log, SvcNone)
        ELSE IF svc.kind = "model_error" THEN Outcome(TRUE, EmptyMap, 0, log, svc)
        ELSE IF svc.kind \in {"call_error", "no_text"}
            THEN Outcome(FALSE, ApiErrorMap(tickers_sent), 2, log, svc)
        ELSE Outcome(FALSE, ParseResponse(svc.text, tickers_sent), 1,
                     log_ai_response(log, tickers_sent, svc.text, write_ok), svc)

\* get_batch_ai_validation with a log_ai_response that lets the exception of
\* a failed write pass to the except clause of line 114.
get_batch_ai_validation_LogRaises(is_configured, reverse_split_list, svc, log, write_ok) ==
    LET tickers_sent == TickersSent(reverse_split_list)
    IN  IF ~is_configured THEN Outcome(FALSE, EmptyMap, 0, log, SvcNone)
        ELSE IF reverse_split_list = <<>> THEN Outcome(FALSE, EmptyMap, 0, log, SvcNone)
        ELSE IF svc.kind = "model_error" THEN Outcome(TRUE, EmptyMap, 0, log, svc)
        ELSE IF svc.kind \in {"call_error", "no_text"} \/ ~write_ok
            THEN Outcome(FALSE, ApiErrorMap(tickers_sent), 1, log, svc)
        ELSE Outcome(FALSE, ParseResponse(svc.text, tickers_sent), 1,
                     log_ai_response(log, tickers_sent, svc.text, write_ok), svc)

\* get_batch_ai_validation with a parse that skips a response text an
\* earlier batch has logged.
get_batch_ai_validation_Remembering(is_configured, reverse_split_list, svc, log, write_ok) ==
    LET tickers_sent == TickersSent(reverse_split_list)
    IN  IF ~is_configured THEN Outcome(FALSE, EmptyMap, 0, log, SvcNone)
        ELSE IF reverse_split_list = <<>> THEN Outcome(FALSE, EmptyMap, 0, log, SvcNone)
        ELSE IF svc.kind = "model_error" THEN Outcome(TRUE, EmptyMap, 0, log, svc)
        ELSE IF svc.kind \in {"call_error", "no_text"}
            THEN Outcome(FALSE, ApiErrorMap(tickers_sent), 1, log, svc)
        ELSE Outcome(FALSE,
                     IF \E i \in 1..Len(log) : log[i].raw_response_text = svc.text
                         THEN ParseResponse(<<>>, tickers_sent)
                         ELSE ParseResponse(svc.text, tickers_sent),
                     1, log_ai_response(log, tickers_sent, svc.text, write_ok), svc)

\* get_batch_ai_validation without the try of lines 108-116: a failure of the
\* network call leaves the function.
get_batch_ai_validation_NoExcept(is_configured, reverse_split_list, svc, log, write_ok) ==
    LET tickers_sent == TickersSent(reverse_split_list)
    IN  IF ~is_configured THEN Outcome(FALSE, EmptyMap, 0, log, SvcNone)
        ELSE IF reverse_split_list = <<>> THEN Outcome(FALSE, EmptyMap, 0, log, SvcNone)
        ELSE IF svc.kind = "model_error" THEN Outcome(TRUE, EmptyMap, 0, log, svc)
        ELSE IF svc.kind \in {"call_error", "no_text"}
            THEN Outcome(TRUE, EmptyMap, 1, log, svc)
        ELSE Outcome(FALSE, ParseResponse(svc.text, tickers_sent), 1,
                     log_ai_response(log, tickers_sent, svc.text, write_ok), svc)

get_batch_ai_validation(is_configured, reverse_split_list, svc, log, write_ok) ==
    LET tickers_sent == TickersSent(reverse_split_list)
    IN  IF ~is_configured THEN Outcome(FALSE, EmptyMap, 0, log, SvcNone)
        ELSE IF reverse_split_list = <<>> THEN Outcome(FALSE, EmptyMap, 0, log, SvcNone)
        ELSE IF svc.kind = "model_error" THEN Outcome(TRUE, EmptyMap, 0, log, svc)
        ELSE IF svc.kind \in {"call_error", "no_text"}
            THEN Outcome(FALSE, ApiErrorMap(tickers_sent), 1, log, svc)
        ELSE Outcome(FALSE, ParseResponse(svc.text, tickers_sent), 1,
                     log_ai_response(log, tickers_sent, svc.text, write_ok), svc)

\* ---------------------------------------------------- init.py, lines 67-106
\* str.lower() on one token.
LowerToken(tok) ==
    CASE tok = "Rounding" -> "rounding"
      [] tok = "Up" -> "up"
      [] tok = "Likely" -> "likely"
      [] tok = "Cash-in-Lieu" -> "cash-in-lieu"
      [] tok = "Unable" -> "unable"
      [] tok = "Determine" -> "determine"
      [] tok = "Insufficient" -> "insufficient"
      [] tok = "Information" -> "information"
      [] tok = "Maybe" -> "maybe"
      [] tok = "Both" -> "both"
      [] tok = "Reasoning" -> "reasoning"
      [] tok = "AAA" -> "aaa"
      [] tok = "BBB" -> "bbb"
      [] tok = "ZZZ" -> "zzz"
      [] OTHER -> tok

\* str.lower()
Lower(s) == [i \in 1..Len(s) |-> LowerToken(s[i])]

\* Line 94
allowed_results ==
    {<<"rounding", SP, "up", SP, "likely">>, <<"cash-in-lieu", SP, "likely">>,
     <<"insufficient", SP, "information">>}

\* Line 100 on one token: replace("likely", "Likely"), then
\* replace("information", "Information"), replace("up", "Up"),
\* replace("in-lieu", "in-Lieu"); a capitalised word has none of these in it.
FixToken(tok) ==
    CASE tok = "likely" -> "Likely"
      [] tok = "information" -> "Information"
      [] tok = "up" -> "Up"
      [] tok = "cash-in-lieu" -> "cash-in-Lieu"
      [] OTHER -> tok

FixCapitalization(s) == [i \in 1..Len(s) |-> FixToken(s[i])]

AI_RESPONSE_PARSE_ERROR == <<"AI Response Parse Error">>

\* Lines 95-102, one iteration of the loop over the response lines.
init_ParseLine(ai_results_map, raw_line) ==
    LET parts == Split1(Strip(raw_line), <<":">>)
    IN  IF Len(parts) # 2 THEN ai_results_map
        ELSE LET ticker == Strip(parts[1])
                 result == Strip(parts[2])
             IN  IF Lower(result) \in allowed_results
                     THEN MapSet(ai_results_map, ticker, StrVal(FixCapitalization(result)))
                     ELSE MapSet(ai_results_map, ticker, StrVal(AI_RESPONSE_UNCLEAR))

RECURSIVE init_ParseLines(_, _)
init_ParseLines(ai_results_map, response_lines) ==
    IF response_lines = <<>> THEN ai_results_map
    ELSE init_ParseLines(init_ParseLine(ai_results_map, Head(response_lines)),
                         Tail(response_lines))

\* Lines 94-106: the parse, then the default for the tickers not answered.
init_ParseResponse(response_text, reverse_split_list) ==
    LET parsed == init_ParseLines(EmptyMap, SplitLines(response_text))
        missing_tickers == Range(TickersSent(reverse_split_list)) \ DOMAIN parsed
    IN  [t \in DOMAIN parsed \cup missing_tickers |->
            IF t \in DOMAIN parsed THEN parsed[t] ELSE StrVal(AI_RESPONSE_PARSE_ERROR)]

\* Lines 67-106: get_batch_ai_validation of init.py; it writes no audit log.
init_get_batch_ai_validation(is_configured, reverse_split_list, svc, log, write_ok) ==
    IF ~is_configured THEN Outcome(FALSE, EmptyMap, 0, log, SvcNone)
    ELSE IF reverse_split_list = <<>> THEN Outcome(FALSE, EmptyMap, 0, log, SvcNone)
    ELSE IF svc.kind = "model_error" THEN Outcome(TRUE, EmptyMap, 0, log, svc)
    ELSE IF svc.kind \in {"call_error", "no_text"}
        THEN Outcome(FALSE, [t \in Range(TickersSent(reverse_split_list)) |-> StrVal(AI_API_ERROR)],
                     1, log, svc)
    ELSE Outcome(FALSE, init_ParseResponse(svc.text, reverse_split_list), 1, log, svc)

\* ------------------------------------------------------------ data_utils.py
\* float(text): the number of a text that is one, -1 for a ValueError.
ToFloat(text) ==
    LET t == Strip(text)
    IN  IF Len(t) # 1 THEN -1
        ELSE CASE t[1] = "1" -> 1
               [] t[1] = "2" -> 2
               [] t[1] = "10" -> 10
               [] OTHER -> -1

\* str.split(sep): the parts between all occurrences of sep.
RECURSIVE SplitAll(_, _)
SplitAll(s, sep) ==
    LET i == Find(s, sep)
    IN  IF i = 0 THEN <<s>>
        ELSE <<SubSeq(s, 1, i - 1)>> \o SplitAll(Drop(s, i + Len(sep) - 1), sep)

\* The comparison of the two parts; any exception gives False.
RatioIsReverse(parts) ==
    /\ Len(parts) = 2
    /\ ToFloat(parts[1]) # -1
    /\ ToFloat(parts[2]) # -1
    /\ ToFloat(parts[1]) < ToFloat(parts[2])

\* data_utils.py line 10 counts no lookup before the first call.
NoLookups == [t \in {} |-> 0]

\* What yfinance does for one lookup: info is returned, with an exchange
\* code (or none) and the ETF market (or none), or the lookup raises.
InfoAnswer(exchange, etf_us_market) ==
    [kind |-> "info", exchange |-> exchange, etf_us_market |-> etf_us_market]
HttpErrorAnswer == [kind |-> "http_error", exchange |-> <<>>, etf_us_market |-> FALSE]
OtherErrorAnswer == [kind |-> "error", exchange |-> <<>>, etf_us_market |-> FALSE]

\* data_utils.py lines 23-24: exchange_map.get(exchange, exchange)
MapExchange(exchange) ==
    CASE exchange = <<"NMS">> -> <<"NASDAQ">>
      [] exchange = <<"NYQ">> -> <<"NYSE">>
      [] exchange = <<"ASE">> -> <<"NYSE AMEX">>
      [] exchange = <<"PNK">> -> <<"OTC Pink">>
      [] exchange = <<"OQB">> -> <<"OTCQB">>
      [] exchange = <<"TOR">> -> <<"TSX">>
      [] exchange = <<"VAN">> -> <<"TSX-V">>
      [] OTHER -> exchange

\* data_utils.py lines 18-45: the value one lookup gives.
LookupValue(answer) ==
    IF answer.kind = "http_error" THEN <<"Lookup Failed (HTTP)">>
    ELSE IF answer.kind = "error" THEN <<"Lookup Failed">>
    ELSE IF answer.exchange # <<>> THEN MapExchange(answer.exchange)
    ELSE IF answer.etf_us_market THEN <<"US ETF Market">>
    ELSE <<"N/A">>

\* The result of get_exchange_cached: the value returned, the cache and the
\* lookups issued after the call.
Got(value, cache, issued) == [value |-> value, cache |-> cache, lookups |-> issued]

\* One more lookup for the ticker.
CountLookup(issued, ticker) ==
    MapSet(issued, ticker, IF ticker \in DOMAIN issued THEN issued[ticker] + 1 ELSE 1)

\* get_exchange_cached keeping the value of a lookup that found the exchange
\* only.
get_exchange_cached_FailuresForgotten(cache, issued, ticker, answer) ==
    IF ticker \in DOMAIN cache THEN Got(cache[ticker], cache, issued)
    ELSE IF answer.kind = "info" /\ answer.exchange # <<>>
        THEN Got(LookupValue(answer), MapSet(cache, ticker, LookupValue(answer)),
                 CountLookup(issued, ticker))
    ELSE Got(LookupValue(answer), cache, CountLookup(issued, ticker))

\* data_utils.py lines 12-45: get_exchange_cached
get_exchange_cached(cache, issued, ticker, answer) ==
    IF ticker \in DOMAIN cache THEN Got(cache[ticker], cache, issued)
    ELSE Got(LookupValue(answer), MapSet(cache, ticker, LookupValue(answer)),
             CountLookup(issued, ticker))

\* data_utils.py lines 48-63
is_reverse_split(ratio_str) ==
    IF ratio_str = <<>> THEN FALSE
    ELSE LET r == Strip(ratio_str)
         IN  IF Contains(r, <<":">>) THEN RatioIsReverse(SplitAll(r, <<":">>))
             ELSE IF Contains(r, <<"/">>) THEN RatioIsReverse(SplitAll(r, <<"/">>))
             ELSE IF Contains(Lower(r), <<"-for-">>) THEN RatioIsReverse(SplitAll(Lower(r), <<"-for-">>))
             ELSE FALSE

\* init.py lines 53-64: 'for' is looked for in the ratio as scraped, and the
\* ratio as scraped is split.
init_is_reverse_split(ratio_str) ==
    IF ratio_str = <<>> THEN FALSE
    ELSE LET r == Strip(ratio_str)
         IN  IF Contains(r, <<":">>) THEN RatioIsReverse(SplitAll(r, <<":">>))
             ELSE IF Contains(r, <<"/">>) THEN RatioIsReverse(SplitAll(r, <<"/">>))
             ELSE IF Contains(r, <<"-for-">>) THEN RatioIsReverse(SplitAll(r, <<"-for-">>))
             ELSE FALSE

\* ------------------------------------------ run_split_checker.py, the rows
TICKER_IDX == 0
COMPANY_NAME_IDX == 2
RATIO_IDX == 3
EX_DATE_IDX == 4
\* run_split_checker.py line 66 (EXCHANGE_IDX is None)
MIN_EXPECTED_COLUMNS == EX_DATE_IDX + 1

\* run_split_checker.py line 63: the day of the run, as yyyymmdd.
today_date == 20261103

\* datetime.strptime(s, '%Y-%m-%d').date() as yyyymmdd, 0 for a ValueError;
\* the month and the day need no leading zero.
ParseDate(ex_date_str) ==
    IF Len(ex_date_str) # 1 THEN 0
    ELSE CASE ex_date_str[1] = "2030-01-02" -> 20300102
           [] ex_date_str[1] = "2031-05-06" -> 20310506
           [] ex_date_str[1] = "2031-5-6" -> 20310506
           [] ex_date_str[1] = "2020-01-01" -> 20200101
           [] OTHER -> 0

\* date.strftime('%Y-%m-%d')
FormatDate(d) ==
    CASE d = 20300102 -> <<"2030-01-02">>
      [] d = 20310506 -> <<"2031-05-06">>
      [] d = 20200101 -> <<"2020-01-01">>

\* str.upper() of the one text it is compared with
IsNA(ex_date_str) == ex_date_str \in {<<"N/A">>, <<"n/a">>}

PENDING == <<"Pending AI Analysis">>
FORWARD_SPLIT == <<"N/A (Forward Split)">>
init_FORWARD_OR_PENDING == <<"N/A (Forward Split or Pending AI)">>
AI_DISABLED == <<"AI Disabled">>
AI_FAILED_MISSING == <<"AI Analysis Failed/Missing">>
\* str(None), the ex-date of an init.py record whose date did not parse
NONE == <<"None">>

Record(ticker, company, ratio, ex_date, handling) ==
    [Ticker |-> ticker, CompanyName |-> company, Ratio |-> ratio, ExDate |-> ex_date,
     fractional_share_handling |-> handling]

\* What one row adds: skip the row, stop the loop, or a record (and a
\* candidate when the split is a reverse split).
RowSkip == [kind |-> "skip"]
RowStop == [kind |-> "stop"]
RowRecord(record, is_reverse) == [kind |-> "record", record |-> record, is_reverse |-> is_reverse]

\* Lines 69-97: one iteration of the loop over the scraped rows.
ProcessRowValues(row_values) ==
    IF row_values = <<>> \/ Len(row_values) < MIN_EXPECTED_COLUMNS THEN RowSkip
    ELSE LET ticker_val == row_values[TICKER_IDX + 1]
             company_val == row_values[COMPANY_NAME_IDX + 1]
             ratio_val == row_values[RATIO_IDX + 1]
             ex_date_str == row_values[EX_DATE_IDX + 1]
             ex_date_obj == ParseDate(ex_date_str)
         IN  IF ticker_val = <<>> \/ ratio_val = <<>> \/ ex_date_str = <<>> \/ IsNA(ex_date_str)
                 THEN RowSkip
             ELSE IF ex_date_obj = 0 THEN RowSkip
             ELSE IF ex_date_obj <= today_date THEN RowSkip
             ELSE RowRecord(Record(ticker_val, company_val, ratio_val, FormatDate(ex_date_obj),
                                   StrVal(IF is_reverse_split(ratio_val) THEN PENDING ELSE FORWARD_SPLIT)),
                            is_reverse_split(ratio_val))

\* init.py lines 197-224: one iteration of the first pass.
init_ProcessRowValues(row_values) ==
    IF row_values = <<>> \/ (\A i \in 1..Len(row_values) : row_values[i] = <<>>) THEN RowSkip
    ELSE IF Len(row_values) < MIN_EXPECTED_COLUMNS THEN RowSkip
    ELSE LET ex_date_str == row_values[EX_DATE_IDX + 1]
             ex_date_obj == IF ex_date_str # <<>> /\ ~IsNA(ex_date_str) THEN ParseDate(ex_date_str) ELSE 0
             ticker_val == row_values[TICKER_IDX + 1]
             company_val == row_values[COMPANY_NAME_IDX + 1]
             ratio_val == row_values[RATIO_IDX + 1]
             ex_date_cleaned == IF ex_date_obj # 0 THEN FormatDate(ex_date_obj) ELSE NONE
         IN  IF ex_date_obj # 0 /\ ex_date_obj <= today_date THEN RowStop
             ELSE IF ticker_val = <<>> \/ company_val = <<>> \/ ratio_val = <<>> THEN RowSkip
             ELSE RowRecord(Record(ticker_val, company_val, ratio_val, ex_date_cleaned,
                                   StrVal(IF init_is_reverse_split(ratio_val)
                                              THEN PENDING ELSE init_FORWARD_OR_PENDING)),
                            init_is_reverse_split(ratio_val))

\* dict.get(key, default)
MapGet(m, k, default) == IF k \in DOMAIN m THEN m[k] ELSE default

\* The merge without the branch of a disabled classification.
MergeRecord_NoDisabled(record, is_ai_enabled, results) ==
    IF record.fractional_share_handling = StrVal(PENDING)
        THEN [record EXCEPT !.fractional_share_handling =
                 MapGet(results, record.Ticker, StrVal(AI_FAILED_MISSING))]
        ELSE record

\* run_split_checker.py lines 116-124: the merge of one record.
MergeRecord(record, is_ai_enabled, results) ==
    IF record.fractional_share_handling = StrVal(PENDING)
        THEN IF is_ai_enabled
                 THEN [record EXCEPT !.fractional_share_handling =
                          MapGet(results, record.Ticker, StrVal(AI_FAILED_MISSING))]
                 ELSE [record EXCEPT !.fractional_share_handling = StrVal(AI_DISABLED)]
        ELSE record

\* init.py lines 241-243: the merge of one record.
init_MergeRecord(record, is_ai_enabled, results) ==
    IF record.fractional_share_handling = StrVal(PENDING)
        THEN [record EXCEPT !.fractional_share_handling =
                 MapGet(results, record.Ticker, StrVal(AI_FAILED_MISSING))]
        ELSE record

\* Lines 157-158: the key of a record in the notification history.
NotificationKey(record) == record.Ticker \o <<"_">> \o record.ExDate

\* The history is not looked at.
AlreadyNotified_Never(notification_key, history) == FALSE

\* Line 161: the record was notified in an earlier run.
AlreadyNotified(notification_key, history) == notification_key \in history

\* ------------------------------------------------------ history_manager.py
\* The order of str on the tokens of the keys.
TokenRank(tok) ==
    CASE tok = "2020-01-01" -> 1
      [] tok = "2030-01-02" -> 2
      [] tok = "2031-05-06" -> 3
      [] tok = "AAA" -> 4
      [] tok = "BBB" -> 5
      [] tok = "None" -> 6
      [] tok = "_" -> 7
      [] OTHER -> 8

RECURSIVE TextLess(_, _)
TextLess(a, b) ==
    IF b = <<>> THEN FALSE
    ELSE IF a = <<>> THEN TRUE
    ELSE IF a[1] # b[1] THEN TokenRank(a[1]) < TokenRank(b[1])
    ELSE TextLess(Tail(a), Tail(b))

\* sorted(list(notified_set))
RECURSIVE Sorted(_)
Sorted(S) ==
    IF S = {} THEN <<>>
    ELSE LET least == CHOOSE x \in S : \A y \in S \ {x} : TextLess(x, y)
         IN  <<least>> \o Sorted(S \ {least})

\* Lines 7-21: the keys of the lines read; an exception while reading is
\* caught and the keys read before it are returned.
load_notified_history(file, lines_read) == Range(SubSeq(file, 1, lines_read))

\* Lines 23-35: the file after save_notified_history.  The file is opened
\* for writing, which empties it, and the sorted keys are written; an
\* exception is caught: the open fails (the file stays as it was) or a write
\* fails (the keys written before it are in the file).
save_notified_history(file, notified_set, open_ok, keys_written) ==
    IF ~open_ok THEN file ELSE SubSeq(Sorted(notified_set), 1, keys_written)

\* ------------------------------------------------------------------ state
VARIABLES
    script,                     \* which script runs: run_split_checker.py or init.py
    pc,                         \* the position of the script
    configured,                 \* _GEMINI_API_KEY_CONFIGURED (GEMINI_API_KEY in init.py) is set
    reverse_splits_to_analyze,  \* the candidates for the batch call
    service,                    \* what the service did with the batch of this run
    ai_results,                 \* the mapping returned by get_batch_ai_validation
    first_results,              \* the mapping an earlier call with the same inputs returned
    calls,                      \* generate_content calls issued
    ai_log,                     \* the audit log file, one entry per line
    history_file,               \* the notification history file, one key per line
    loaded_history,             \* the keys load_notified_history returned
    notified_keys_history,
    current_run_notified_keys,
    ai_enabled,
    webhook,                    \* DISCORD_WEBHOOK_URL is set
    driver,                     \* the WebDriver exists
    all_row_data_values,        \* the scraped rows
    row_i,                      \* the row the loop is at
    initial_records,
    final_analyzed_data,
    exchange_cache,             \* data_utils.exchange_cache
    lookups,                    \* yfinance lookups issued, per ticker
    csv_file,                   \* the rows of the CSV file
    rec_i,                      \* the record the notification loop is at
    sends,                      \* the webhook posts attempted, in order
    steps_done,                 \* the steps of the run that were executed
    saves,                      \* executions of save_notified_history
    exit_kind                   \* how the try block was left

classifyVars == <<configured, reverse_splits_to_analyze, service, ai_results, first_results, calls,
                  ai_log>>
historyVars == <<history_file, loaded_history, notified_keys_history, current_run_notified_keys>>
rowVars == <<all_row_data_values, row_i, initial_records, final_analyzed_data, exchange_cache,
             lookups>>
outVars == <<csv_file, rec_i, sends, saves>>
runVars == <<historyVars, ai_enabled, webhook, driver, rowVars, outVars, steps_done, exit_kind>>
vars == <<script, pc, classifyVars, runVars>>

Scripts == {"run_split_checker", "init"}

\* --------------------------------------------------- inputs of the checks
AAA == <<"AAA">>
BBB == <<"BBB">>
ZZZ == <<"ZZZ">>
DATE1 == <<"2030-01-02">>
DATE2 == <<"2031-05-06">>
RATIO_REVERSE == <<"1", ":", "10">>

Candidate(ticker, ex_date) == [ticker |-> ticker, ratio |-> RATIO_REVERSE, ex_date |-> ex_date]

Candidates == {Candidate(AAA, DATE1), Candidate(BBB, DATE1)}

SeqsUpTo(S, n) == UNION {[1..k -> S] : k \in 0..n}

CandidateLists == SeqsUpTo(Candidates, MaxCandidates)

Answer(ticker, rest) == ticker \o <<":", SP>> \o rest

\* The lines a response is made of: the format asked for, with and without
\* reasoning, and the departures from it the parser has to cope with.
LinePool ==
    { Answer(AAA, OUTPUT_ROUND_UP \o <<SP, "|", SP, "Reasoning", ":", SP, "foo">>),
      Answer(AAA, OUTPUT_CASH),
      Answer(BBB, OUTPUT_CASH \o <<SP, "-", SP, "foo">>),
      <<"1", ".", SP>> \o Answer(AAA, OUTPUT_CASH),
      Answer(AAA, Lower(OUTPUT_CASH)),
      Answer(AAA, <<"Rounding", SP, SP, "Up", SP, "Likely">>),
      Answer(ZZZ, OUTPUT_ROUND_UP),
      Answer(AAA, <<"Maybe", SP, "Both">>),
      <<"foo">>,
      <<SP>>,
      Answer(AAA, <<"foo", SP>> \o OUTPUT_UNKNOWN \o <<SP, "foo">>),
      <<SP, "AAA", SP, ":">> \o OUTPUT_ROUND_UP \o <<SP, "Reasoning", ":", "foo", SP>>,
      Answer(AAA, OUTPUT_ROUND_UP \o <<SP, "foo">>),
      Answer(BBB, OUTPUT_ROUND_UP \o <<SP, "|", "foo">>) }

\* "\n".join(lines)
RECURSIVE JoinLines(_)
JoinLines(lines) ==
    IF lines = <<>> THEN <<>>
    ELSE IF Len(lines) = 1 THEN lines[1]
    ELSE lines[1] \o <<NL>> \o JoinLines(Tail(lines))

\* The response texts: up to MaxLines lines, and single lines ended by a newline.
Responses ==
    {JoinLines(ls) : ls \in SeqsUpTo(LinePool, MaxLines)} \cup {l \o <<NL>> : l \in LinePool}

ServiceBehaviours == {SvcModelError, SvcCallError, SvcNoText} \cup {SvcText(t) : t \in Responses}

\* The function of the script that runs.
Classify(which, is_configured, reverse_split_list, svc, log, write_ok) ==
    IF which = "init"
        THEN init_get_batch_ai_validation(is_configured, reverse_split_list, svc, log, write_ok)
        ELSE get_batch_ai_validation(is_configured, reverse_split_list, svc, log, write_ok)

\* ------------------------------- get_batch_ai_validation called on its own
\* The state the run variables are in before a run.
RunVarsInitial ==
    /\ history_file = <<>>
    /\ loaded_history = {}
    /\ notified_keys_history = {}
    /\ current_run_notified_keys = {}
    /\ ai_enabled = FALSE
    /\ webhook = FALSE
    /\ driver = FALSE
    /\ all_row_data_values = <<>>
    /\ row_i = 1
    /\ initial_records = <<>>
    /\ final_analyzed_data = <<>>
    /\ exchange_cache = EmptyMap
    /\ lookups = NoLookups
    /\ csv_file = <<>>
    /\ rec_i = 1
    /\ sends = <<>>
    /\ steps_done = {}
    /\ saves = 0
    /\ exit_kind = "none"

InitCall ==
    /\ script \in Scripts
    /\ pc = "call"
    /\ configured \in BOOLEAN
    /\ reverse_splits_to_analyze \in CandidateLists
    /\ service = SvcNone
    /\ ai_results = EmptyMap
    /\ first_results = EmptyMap
    /\ calls = 0
    /\ ai_log = <<>>
    /\ RunVarsInitial

\* One call of get_batch_ai_validation that returns a mapping.
CallReturns ==
    /\ pc = "call"
    /\ \E svc \in ServiceBehaviours, write_ok \in BOOLEAN :
         \E out \in {Classify(script, configured, reverse_splits_to_analyze, svc, ai_log, write_ok)} :
             /\ ~out.raised
             /\ service' = out.service
             /\ ai_results' = out.map
             /\ calls' = calls + out.calls
             /\ ai_log' = out.log
    /\ pc' = "returned"
    /\ UNCHANGED <<script, configured, reverse_splits_to_analyze, first_results, runVars>>

\* One call of get_batch_ai_validation that an exception leaves.
CallRaises ==
    /\ pc = "call"
    /\ \E svc \in ServiceBehaviours, write_ok \in BOOLEAN :
         \E out \in {Classify(script, configured, reverse_splits_to_analyze, svc, ai_log, write_ok)} :
             /\ out.raised
             /\ service' = out.service
             /\ ai_results' = out.map
             /\ calls' = calls + out.calls
             /\ ai_log' = out.log
    /\ pc' = "raised"
    /\ UNCHANGED <<script, configured, reverse_splits_to_analyze, first_results, runVars>>

\* get_batch_ai_validation is called a second time with the same candidates,
\* and the service answers with the same text; the audit log holds what the
\* first call left in it.
CallAgain ==
    /\ pc = "returned"
    /\ service.kind = "text"
    /\ \E write_ok \in BOOLEAN :
         \E out \in {Classify(script, configured, reverse_splits_to_analyze, service, ai_log, write_ok)} :
             /\ ~out.raised
             /\ ai_results' = out.map
             /\ calls' = calls + out.calls
             /\ ai_log' = out.log
    /\ first_results' = ai_results
    /\ pc' = "returned_again"
    /\ UNCHANGED <<script, configured, reverse_splits_to_analyze, service, runVars>>

\* ------------------------------------------------------ the run of a script
Cell(tok) == <<tok>>
Row(ticker, company, ratio, ex_date) == <<ticker, <<>>, Cell(company), ratio, Cell(ex_date)>>

\* The scraped rows: two reverse splits of one ticker (the second with a
\* date written without leading zeros), a forward split and a reverse split
\* whose ex-date has passed.
RowPool ==
    { Row(AAA, "Acme", RATIO_REVERSE, "2030-01-02"),
      Row(AAA, "Acme", <<"1", "/", "10">>, "2031-5-6"),
      Row(BBB, "Beta", <<"10", "-for-", "1">>, "2030-01-02"),
      Row(BBB, "Beta", RATIO_REVERSE, "2020-01-01") }

RowLists == SeqsUpTo(RowPool, MaxRows)

\* The history file left by earlier runs.
HistoryFiles ==
    { <<>>,
      <<AAA \o <<"_">> \o DATE1>>,
      <<AAA \o <<"_">> \o DATE1, BBB \o <<"_">> \o DATE1>> }

\* What the service does with the batch of a run.
RunResponses ==
    { <<>>,
      Answer(AAA, OUTPUT_ROUND_UP \o <<SP, "|", SP, "Reasoning", ":", SP, "foo">>),
      Answer(AAA, <<"Maybe", SP, "Both">>) }

RunServiceBehaviours == {SvcModelError, SvcCallError, SvcNoText} \cup {SvcText(t) : t \in RunResponses}

InitRun ==
    /\ script \in Scripts
    /\ pc = IF script = "init" THEN "configure" ELSE "load_history"
    /\ configured = FALSE
    /\ reverse_splits_to_analyze = <<>>
    /\ service = SvcNone
    /\ ai_results = EmptyMap
    /\ first_results = EmptyMap
    /\ calls = 0
    /\ ai_log = <<>>
    /\ history_file \in HistoryFiles
    /\ loaded_history = {}
    /\ notified_keys_history = {}
    /\ current_run_notified_keys = {}
    /\ ai_enabled = FALSE
    /\ webhook \in BOOLEAN
    /\ driver = FALSE
    /\ all_row_data_values = <<>>
    /\ row_i = 1
    /\ initial_records = <<>>
    /\ final_analyzed_data = <<>>
    /\ exchange_cache = EmptyMap
    /\ lookups = NoLookups
    /\ csv_file = <<>>
    /\ rec_i = 1
    /\ sends = <<>>
    /\ steps_done = {}
    /\ saves = 0
    /\ exit_kind = "none"

\* run_split_checker.py line 43, init.py line 153
LoadHistory ==
    /\ pc = "load_history"
    /\ \E lines_read \in 0..Len(history_file) :
         /\ loaded_history' = load_notified_history(history_file, lines_read)
         /\ notified_keys_history' = load_notified_history(history_file, lines_read)
    /\ pc' = IF script = "init" THEN "setup_driver" ELSE "configure"
    /\ UNCHANGED <<script, classifyVars, history_file, current_run_notified_keys, ai_enabled,
                   webhook, driver, rowVars, outVars, steps_done, exit_kind>>

\* ai_handler.py lines 13-29: the key is kept when one is given and
\* genai.configure does not raise.
configure_gemini(api_key, configure_ok) == api_key /\ configure_ok

\* run_split_checker.py line 46, init.py lines 45-50
ConfigureGemini ==
    /\ pc = "configure"
    /\ \E api_key \in BOOLEAN, configure_ok \in BOOLEAN :
         /\ configured' = configure_gemini(api_key, configure_ok)
         /\ ai_enabled' = IF script = "init" THEN FALSE ELSE configure_gemini(api_key, configure_ok)
    /\ pc' = IF script = "init" THEN "load_history" ELSE "setup_driver"
    /\ UNCHANGED <<script, reverse_splits_to_analyze, service, ai_results, first_results, calls, ai_log,
                   historyVars, webhook, driver, rowVars, outVars, steps_done, exit_kind>>

\* run_split_checker.py lines 50-52 (no driver: an exception is raised),
\* init.py lines 159-161
SetupDriver ==
    /\ pc = "setup_driver"
    /\ \E ok \in BOOLEAN :
         /\ driver' = ok
         /\ pc' = IF ok THEN "scrape" ELSE "finally"
         /\ exit_kind' = IF ok THEN exit_kind ELSE "exception"
    /\ UNCHANGED <<script, classifyVars, historyVars, ai_enabled, webhook, rowVars, outVars, steps_done>>

\* run_split_checker.py lines 55-59 (no rows: sys.exit()), init.py lines 165-185
Scrape ==
    /\ pc = "scrape"
    /\ \E rows \in RowLists :
         /\ all_row_data_values' = rows
         /\ IF rows # <<>> THEN pc' = "rows" /\ exit_kind' = exit_kind
            ELSE IF script = "init" THEN pc' = "ai_call" /\ exit_kind' = exit_kind
            ELSE pc' = "finally" /\ exit_kind' = "sys_exit"
    /\ row_i' = 1
    /\ UNCHANGED <<script, classifyVars, historyVars, ai_enabled, webhook, driver,
                   initial_records, final_analyzed_data, exchange_cache, lookups, outVars,
                   steps_done>>

\* The answers of yfinance tried: AAA is listed with the exchange code NMS and
\* its lookup may fail with an HTTP error; BBB has no exchange entry and its
\* lookup may fail with another exception.
LookupAnswers(ticker) ==
    IF ticker = AAA THEN {InfoAnswer(<<"NMS">>, FALSE), HttpErrorAnswer}
                    ELSE {InfoAnswer(<<>>, FALSE), OtherErrorAnswer}

\* run_split_checker.py lines 86-90: the record with its 'Exchange' entry.
WithExchange(record, final_exchange) ==
    [f \in DOMAIN record \cup {"Exchange"} |->
        IF f = "Exchange" THEN final_exchange ELSE record[f]]

\* run_split_checker.py lines 68-97, init.py lines 197-224: one row
ProcessRow ==
    /\ pc = "rows"
    /\ LET r == IF script = "init"
                    THEN init_ProcessRowValues(all_row_data_values[row_i])
                    ELSE ProcessRowValues(all_row_data_values[row_i])
       IN  /\ IF r.kind = "record" /\ script = "run_split_checker"
                 THEN \E answer \in LookupAnswers(r.record.Ticker) :
                        LET got == get_exchange_cached(exchange_cache, lookups, r.record.Ticker,
                                                       answer)
                        IN  /\ exchange_cache' = got.cache
                            /\ lookups' = got.lookups
                            /\ initial_records' =
                                  Append(initial_records, WithExchange(r.record, got.value))
                 ELSE /\ UNCHANGED <<exchange_cache, lookups>>
                      /\ initial_records' =
                            IF r.kind = "record" THEN Append(initial_records, r.record)
                                                 ELSE initial_records
           /\ reverse_splits_to_analyze' =
                IF r.kind = "record" /\ r.is_reverse
                    THEN Append(reverse_splits_to_analyze,
                                [ticker |-> r.record.Ticker, ratio |-> r.record.Ratio,
                                 ex_date |-> r.record.ExDate])
                    ELSE reverse_splits_to_analyze
           /\ pc' = IF r.kind = "stop" \/ row_i = Len(all_row_data_values) THEN "ai_call" ELSE "rows"
    /\ row_i' = row_i + 1
    /\ UNCHANGED <<script, configured, service, ai_results, first_results, calls, ai_log, historyVars,
                   ai_enabled, webhook, driver, all_row_data_values, final_analyzed_data, outVars,
                   steps_done, exit_kind>>

\* run_split_checker.py line 105, init.py line 230: the condition of the call.
ShouldCallAi(which, is_ai_enabled, candidates) ==
    IF which = "init" THEN candidates # <<>> ELSE is_ai_enabled /\ candidates # <<>>

\* run_split_checker.py lines 104-109, init.py lines 229-233
AiCall ==
    /\ pc = "ai_call"
    /\ IF ShouldCallAi(script, ai_enabled, reverse_splits_to_analyze)
         THEN \E svc \in RunServiceBehaviours, write_ok \in BOOLEAN :
                \E out \in {Classify(script, configured, reverse_splits_to_analyze, svc, ai_log, write_ok)} :
                    /\ service' = out.service
                    /\ ai_results' = out.map
                    /\ calls' = calls + out.calls
                    /\ ai_log' = out.log
                    /\ pc' = IF out.raised THEN "finally" ELSE "merge"
                    /\ exit_kind' = IF out.raised THEN "exception" ELSE exit_kind
         ELSE /\ ai_results' = EmptyMap
              /\ pc' = "merge"
              /\ UNCHANGED <<service, calls, ai_log, exit_kind>>
    /\ UNCHANGED <<script, configured, reverse_splits_to_analyze, first_results, historyVars,
                   ai_enabled, webhook, driver, rowVars, outVars, steps_done>>

\* The merge of all records.
MergeAll(which, records, is_ai_enabled, results) ==
    [i \in 1..Len(records) |->
        IF which = "init"
            THEN init_MergeRecord(records[i], is_ai_enabled, results)
            ELSE MergeRecord(records[i], is_ai_enabled, results)]

\* run_split_checker.py lines 113-125, init.py lines 236-246: the records
\* are changed in place and put in the final list.
Merge ==
    /\ pc = "merge"
    /\ initial_records' = MergeAll(script, initial_records, ai_enabled, ai_results)
    /\ final_analyzed_data' = MergeAll(script, initial_records, ai_enabled, ai_results)
    /\ steps_done' = steps_done \cup {"merge"}
    /\ pc' = "csv"
    /\ UNCHANGED <<script, classifyVars, historyVars, ai_enabled, webhook, driver,
                   all_row_data_values, row_i, exchange_cache, lookups, outVars, exit_kind>>

\* file_handler.py lines 10-38: the file after save_to_csv; an exception is
\* caught and the file is not written.
save_to_csv(file, data, write_ok) == IF data # <<>> /\ write_ok THEN data ELSE file

\* run_split_checker.py lines 133-137, init.py lines 249-262
SaveCsv ==
    /\ pc = "csv"
    /\ \E write_ok \in BOOLEAN : csv_file' = save_to_csv(csv_file, final_analyzed_data, write_ok)
    /\ steps_done' = steps_done \cup {"csv"}
    /\ pc' = "start_notify"
    /\ UNCHANGED <<script, classifyVars, historyVars, ai_enabled, webhook, driver, rowVars,
                   rec_i, sends, saves, exit_kind>>

\* run_split_checker.py lines 140-155 and 181-184, init.py lines 266-273 and 303-306
StartNotifications ==
    /\ pc = "start_notify"
    /\ current_run_notified_keys' = notified_keys_history
    /\ steps_done' = steps_done \cup {"notify"}
    /\ rec_i' = 1
    /\ IF final_analyzed_data # <<>> /\ webhook
         THEN pc' = "notify" /\ exit_kind' = exit_kind
         ELSE pc' = "finally" /\ exit_kind' = "normal"
    /\ UNCHANGED <<script, classifyVars, history_file, loaded_history, notified_keys_history,
                   ai_enabled, webhook, driver, rowVars, csv_file, sends, saves>>

\* The key is kept whatever the send returned.
RecordSend_Always(keys, notification_key, success) == keys \cup {notification_key}

\* run_split_checker.py lines 169-170, init.py lines 288-289: the key of a
\* record is kept when its send returned True.
RecordSend(keys, notification_key, success) ==
    IF success THEN keys \cup {notification_key} ELSE keys

\* run_split_checker.py lines 156-174, init.py lines 274-295: one record
NotifyRecord ==
    /\ pc = "notify"
    /\ LET notification_key == NotificationKey(final_analyzed_data[rec_i])
       IN  IF AlreadyNotified(notification_key, notified_keys_history)
               THEN UNCHANGED <<sends, current_run_notified_keys>>
               ELSE \E success \in BOOLEAN :
                      /\ sends' = Append(sends, [index |-> rec_i, key |-> notification_key,
                                                 success |-> success])
                      /\ current_run_notified_keys' =
                            RecordSend(current_run_notified_keys, notification_key, success)
    /\ rec_i' = rec_i + 1
    /\ pc' = IF rec_i = Len(final_analyzed_data) THEN "notify_end" ELSE "notify"
    /\ UNCHANGED <<script, classifyVars, history_file, loaded_history, notified_keys_history,
                   ai_enabled, webhook, driver, rowVars, csv_file, saves, steps_done, exit_kind>>

\* run_split_checker.py lines 176-179, init.py lines 297-301
FinishNotifications ==
    /\ pc = "notify_end"
    /\ notified_keys_history' = current_run_notified_keys
    /\ pc' = "finally"
    /\ exit_kind' = "normal"
    /\ UNCHANGED <<script, classifyVars, history_file, loaded_history, current_run_notified_keys,
                   ai_enabled, webhook, driver, rowVars, outVars, steps_done>>

\* The positions inside the try block.
InTry == {"setup_driver", "scrape", "rows", "ai_call", "merge", "csv", "start_notify",
          "notify", "notify_end"}

\* A KeyboardInterrupt inside the try block: run_split_checker.py line 188
\* catches it, init.py lets it pass; the finally block runs in both.
Interrupt ==
    /\ pc \in InTry
    /\ pc' = "finally"
    /\ exit_kind' = "interrupted"
    /\ UNCHANGED <<script, classifyVars, historyVars, ai_enabled, webhook, driver, rowVars,
                   outVars, steps_done>>

\* run_split_checker.py lines 194-203, init.py lines 315-323: the driver is
\* closed and the history is saved.
Finally ==
    /\ pc = "finally"
    /\ driver' = FALSE
    /\ \E open_ok \in BOOLEAN, keys_written \in 0..Cardinality(notified_keys_history) :
         history_file' = save_notified_history(history_file, notified_keys_history, open_ok, keys_written)
    /\ saves' = saves + 1
    /\ pc' = "done"
    /\ UNCHANGED <<script, classifyVars, loaded_history, notified_keys_history,
                   current_run_notified_keys, ai_enabled, webhook, rowVars, csv_file, rec_i, sends,
                   steps_done, exit_kind>>

\* run_split_checker.py lines 195-199: a KeyboardInterrupt while driver.quit()
\* runs is not an Exception, line 198 does not catch it, and it leaves the
\* finally block before line 203.  init.py saves the history first (line 318)
\* and closes the driver after it.
InterruptQuit ==
    /\ pc = "finally"
    /\ script = "run_split_checker"
    /\ driver
    /\ pc' = "done"
    /\ UNCHANGED <<script, classifyVars, historyVars, ai_enabled, webhook, driver, rowVars,
                   outVars, steps_done, exit_kind>>

\* A script is run, or get_batch_ai_validation is called on its own.
Init == InitRun \/ InitCall

Next ==
    \/ CallReturns
    \/ CallRaises
    \/ CallAgain
    \/ LoadHistory
    \/ ConfigureGemini
    \/ SetupDriver
    \/ Scrape
    \/ ProcessRow
    \/ AiCall
    \/ Merge
    \/ SaveCsv
    \/ StartNotifications
    \/ NotifyRecord
    \/ FinishNotifications
    \/ Interrupt
    \/ Finally
    \/ InterruptQuit

Spec == Init /\ [][Next]_vars

\* ------------------------------------------- properties of the classifier
\* get_batch_ai_validation has returned a mapping, to a caller of its own or
\* to the script.
CallReturned == pc \in {"returned", "merge"} \/ "merge" \in steps_done

\* A call of ai_handler.get_batch_ai_validation has just returned, after the
\* service answered with a text.
AnsweredByAiHandler ==
    /\ pc \in {"returned", "merge"}
    /\ script = "run_split_checker"
    /\ service.kind = "text"
    /\ calls = 1

Requested == Range(TickersSent(reverse_splits_to_analyze))

ResponseLines == SplitLines(service.text)

HasColon(line) == Contains(line, <<":">>)

\* The text before the first colon of a line, and the text after it.
TickerToken(line) == Strip(Split1(Strip(line), <<":">>)[1])
Remainder(line) == Strip(Split1(Strip(line), <<":">>)[2])

\* The lines of the response that carry the ticker t before their first colon.
LinesFor(t) ==
    LET lines == ResponseLines
    IN  {i \in 1..Len(lines) : HasColon(lines[i]) /\ TickerToken(lines[i]) = t}

\* A run of digits followed by a period at the start of a line.
Digits == {"1"}
HasEnumeration(line) ==
    LET l == Strip(line) IN Len(l) >= 2 /\ l[1] \in Digits /\ l[2] = "."
WithoutEnumeration(line) == Strip(Drop(Strip(line), 2))

\* A text with its letters in lower case and every run of spaces made one space.
RECURSIVE CollapseSpaces(_)
CollapseSpaces(s) ==
    IF Len(s) < 2 THEN s
    ELSE IF s[1] = SP /\ s[2] = SP THEN CollapseSpaces(Tail(s))
    ELSE <<s[1]>> \o CollapseSpaces(Tail(s))
Normalized(s) == Lower(CollapseSpaces(Strip(s)))

\* C1: after a successful service call the key set of the mapping returned by
\* get_batch_ai_validation (of ai_handler.py and of init.py) is exactly the
\* set of tickers sent.
C1_KeysAreTickersSent ==
    (CallReturned /\ service.kind = "text" /\ calls = 1)
        => DOMAIN ai_results = Requested

\* C2: when several lines carry the same requested ticker, the result of the
\* ticker is the one parsed from the first of them.
C2_FirstLineWins ==
    AnsweredByAiHandler =>
        \A t \in Requested :
            Cardinality(LinesFor(t)) >= 2 =>
                LET first == CHOOSE i \in LinesFor(t) : \A j \in LinesFor(t) : i <= j
                IN  ai_results[t] = ParseRest(Remainder(ResponseLines[first]))

\* C3: a line that starts with digits and a period before the ticker is
\* parsed as if the prefix were absent: its requested ticker, answered by no
\* other line, gets the verdict of the line and not the missing sentinel.
C3_EnumerationStripped ==
    AnsweredByAiHandler =>
        \A i \in 1..Len(ResponseLines) :
            LET line == ResponseLines[i]
                bare == WithoutEnumeration(line)
            IN  (/\ HasEnumeration(line)
                 /\ HasColon(bare)
                 /\ TickerToken(bare) \in Requested
                 /\ LinesFor(TickerToken(bare)) = {}
                 /\ \A j \in 1..Len(ResponseLines) :
                        (j # i /\ HasEnumeration(ResponseLines[j]))
                            => TickerToken(WithoutEnumeration(ResponseLines[j])) # TickerToken(bare))
                => /\ ai_results[TickerToken(bare)] = ParseRest(Remainder(bare))
                   /\ ai_results[TickerToken(bare)].result # AI_RESPONSE_MISSING

\* C4: phrase matching ignores letter case and the amount of whitespace: a
\* requested ticker whose only line has a remainder that differs from an
\* allowed phrase in nothing else gets that phrase as its verdict.
C4_CaseAndSpaceInsensitive ==
    AnsweredByAiHandler =>
        \A t \in Requested : \A k \in 1..Len(CLASSIFICATION_PHRASES) :
            (/\ Cardinality(LinesFor(t)) = 1
             /\ \A i \in LinesFor(t) :
                    Normalized(Remainder(ResponseLines[i])) = Normalized(CLASSIFICATION_PHRASES[k]))
                => ai_results[t].result = CLASSIFICATION_PHRASES[k]

\* C5: a failed service call gives the api error sentinel to every ticker
\* sent and a model verdict to none, and the mapping differs from the one of
\* an empty response, in which every ticker has the missing sentinel.
C5_FailedCallAllApiError ==
    (/\ CallReturned
     /\ script = "run_split_checker"
     /\ service.kind \in {"call_error", "no_text"}
     /\ calls = 1)
        => /\ DOMAIN ai_results = Requested
           /\ \A t \in Requested :
                /\ ai_results[t].result = AI_API_ERROR
                /\ ai_results[t].result \notin Range(CLASSIFICATION_PHRASES)
           /\ \A t \in Requested : ParseResponse(<<>>, TickersSent(reverse_splits_to_analyze))[t].result = AI_RESPONSE_MISSING
           /\ ai_results # ParseResponse(<<>>, TickersSent(reverse_splits_to_analyze))

C5_Witness ==
    /\ CallReturned
    /\ script = "run_split_checker"
    /\ service.kind = "call_error"
    /\ calls = 1
    /\ Cardinality(Requested) = 2

\* ------------------------------------------------- properties of the run
IsReverseRecord(record) == is_reverse_split(record.Ratio)

\* The values a classification may have: an allowed phrase or a sentinel.
VerdictValues ==
    {StrVal(v) : v \in Range(CLASSIFICATION_PHRASES)
                     \cup {AI_RESPONSE_MISSING, AI_RESPONSE_UNCLEAR, AI_API_ERROR, AI_DISABLED}}

\* The records a webhook post was attempted for.
SentRecords == {final_analyzed_data[sends[k].index] : k \in 1..Len(sends)}

\* C6: no failure of the classification stage aborts the run: whatever the
\* service does, a run that is not interrupted goes on to the merge, the CSV
\* and the notification steps.
C6_ClassificationNeverAborts ==
    (/\ script = "run_split_checker"
     /\ pc = "done"
     /\ service.kind # "none"
     /\ exit_kind # "interrupted")
        => /\ exit_kind = "normal"
           /\ {"merge", "csv", "notify"} \subseteq steps_done

\* C7: the classification of every reverse-split record written to the CSV
\* or sent in a notification is a verdict value, an allowed phrase or a
\* sentinel string; after a failed service call it is the api error sentinel.
C7_ClassificationIsVerdictValue ==
    script = "run_split_checker" =>
        /\ \A i \in 1..Len(csv_file) :
                IsReverseRecord(csv_file[i]) => csv_file[i].fractional_share_handling \in VerdictValues
        /\ \A r \in SentRecords :
                IsReverseRecord(r) => r.fractional_share_handling \in VerdictValues
        /\ service.kind \in {"call_error", "no_text"} =>
                \A i \in 1..Len(csv_file) :
                    IsReverseRecord(csv_file[i])
                        => csv_file[i].fractional_share_handling = StrVal(AI_API_ERROR)

\* C8: no webhook post is attempted for a record whose key is in the history
\* loaded at the start of the run, and at most one post is attempted for each
\* record of the run.
C8_NoSendForNotifiedOnePerRecord ==
    /\ \A k \in 1..Len(sends) :
            /\ sends[k].key = NotificationKey(final_analyzed_data[sends[k].index])
            /\ sends[k].key \notin loaded_history
    /\ \A k1, k2 \in 1..Len(sends) : sends[k1].index = sends[k2].index => k1 = k2

C8_Witness ==
    /\ pc = "done"
    /\ Len(sends) >= 1
    /\ \E i \in 1..Len(final_analyzed_data) :
            /\ i < rec_i
            /\ NotificationKey(final_analyzed_data[i]) \in loaded_history

\* C9: generate_content is called only when the service is configured and
\* the candidate list is not empty; otherwise the service is not asked at all.
C9_CallOnlyWhenConfiguredAndNonEmpty ==
    /\ calls > 0 => (configured /\ reverse_splits_to_analyze # <<>>)
    /\ service # SvcNone => (configured /\ reverse_splits_to_analyze # <<>>)

C9_Witness ==
    /\ pc = "returned"
    /\ ~configured
    /\ reverse_splits_to_analyze # <<>>
    /\ calls = 0
    /\ service = SvcNone

\* C10 as stated: with the service unconfigured, classifying a non-empty
\* candidate list returns a mapping in which every ticker has the disabled
\* sentinel.
C10_UnconfiguredReturnsDisabledMap ==
    (/\ script = "run_split_checker"
     /\ CallReturned
     /\ ~configured
     /\ reverse_splits_to_analyze # <<>>)
        => /\ DOMAIN ai_results = Requested
           /\ \A t \in Requested : ai_results[t].result = AI_DISABLED

\* C10 as amended: with the service unconfigured, get_batch_ai_validation
\* returns an empty mapping, and the merge of run_split_checker.py gives every
\* reverse-split record the disabled sentinel, which is not the api error
\* sentinel.
C10_UnconfiguredMergedAsDisabled ==
    (script = "run_split_checker" /\ ~configured /\ CallReturned)
        => /\ ai_results = EmptyMap
           /\ calls = 0
           /\ "merge" \in steps_done =>
                \A i \in 1..Len(final_analyzed_data) :
                    IsReverseRecord(final_analyzed_data[i]) =>
                        /\ final_analyzed_data[i].fractional_share_handling = StrVal(AI_DISABLED)
                        /\ final_analyzed_data[i].fractional_share_handling # StrVal(AI_API_ERROR)

C10_Witness ==
    /\ script = "run_split_checker"
    /\ pc = "done"
    /\ ~configured
    /\ "merge" \in steps_done
    /\ \E i \in 1..Len(final_analyzed_data) : IsReverseRecord(final_analyzed_data[i])

\* ------------------------------------------ properties of the batch call
\* A script runs (get_batch_ai_validation is not called on its own).
ScriptRuns == pc \notin {"call", "returned", "raised", "returned_again"}

\* C11: within one run generate_content is called at most once: a failed
\* call is not followed by another call and a successful call is not repeated.
C11_AtMostOneCallPerRun == ScriptRuns => calls <= 1

C11_Witness ==
    /\ ScriptRuns
    /\ script = "run_split_checker"
    /\ pc = "done"
    /\ service.kind = "call_error"
    /\ calls = 1

\* C12: every batch call issued to the service by ai_handler.py, failed or
\* not, has appended one record to the audit log: the log has as many
\* records as calls were issued.
C12_EveryCallLogged == script = "run_split_checker" => Len(ai_log) = calls

\* C13: a failed write of the audit log does not change the mapping returned:
\* for the text the service answered with, it is the mapping of a call whose
\* log write succeeds and of a call whose log write fails, and no ticker has
\* the api error sentinel.
C13_LogFailureKeepsOutcome ==
    (/\ script = "run_split_checker"
     /\ service.kind = "text"
     /\ pc \in {"returned", "merge"})
        => /\ ai_results = get_batch_ai_validation(configured, reverse_splits_to_analyze, service,
                                                    ai_log, TRUE).map
           /\ ai_results = get_batch_ai_validation(configured, reverse_splits_to_analyze, service,
                                                    ai_log, FALSE).map
           /\ \A t \in Requested : ai_results[t].result # AI_API_ERROR

\* The write of the audit log failed and the mapping holds a verdict.
C13_Witness ==
    /\ script = "run_split_checker"
    /\ pc = "returned"
    /\ service.kind = "text"
    /\ calls = 1
    /\ ai_log = <<>>
    /\ \E t \in Requested : ai_results[t].result \in Range(CLASSIFICATION_PHRASES)

\* C14: the batch a run hands to get_batch_ai_validation holds each ticker
\* at most once, whatever rows were scraped.
C14_BatchHasNoDuplicateTickers ==
    (ScriptRuns /\ script = "run_split_checker" /\ service # SvcNone)
        => \A i, j \in 1..Len(reverse_splits_to_analyze) :
                reverse_splits_to_analyze[i].ticker = reverse_splits_to_analyze[j].ticker => i = j

\* ------------------------------------------------ properties of the parse
\* A line the loop of lines 124-155 does not skip: it has a colon and the
\* token before the colon is a requested ticker.
IsAnswerLine(line) == HasColon(line) /\ TickerToken(line) \in Requested

\* The last line of the response that carries the ticker t.
LastLineFor(t) ==
    LET for_t == LinesFor(t)
    IN  ResponseLines[CHOOSE i \in for_t : \A j \in for_t : j <= i]

\* The mapping before the first line is read.
AllMissing == [t \in Requested |-> DictVal(AI_RESPONSE_MISSING, <<>>)]

\* C15: a requested ticker that no response line carries before its first
\* colon keeps the missing sentinel with empty reasoning, and blank lines,
\* lines without a colon and lines of a ticker that was not requested change
\* no entry: the mapping is the one parsed from the other lines alone.
C15_UnmatchedKeepMissingSkippedChangeNothing ==
    AnsweredByAiHandler =>
        /\ \A t \in Requested :
                LinesFor(t) = {} => ai_results[t] = DictVal(AI_RESPONSE_MISSING, <<>>)
        /\ ai_results = ParseLines(AllMissing, SelectSeq(ResponseLines, IsAnswerLine),
                                   TickersSent(reverse_splits_to_analyze))

\* A response with a line that is skipped, a ticker that is answered and a
\* ticker that is not.
C15_Witness ==
    /\ AnsweredByAiHandler
    /\ \E i \in 1..Len(ResponseLines) : ~IsAnswerLine(ResponseLines[i])
    /\ \E t \in Requested : LinesFor(t) = {} /\ ai_results[t].result = AI_RESPONSE_MISSING
    /\ \E t \in Requested : LinesFor(t) # {} /\ ai_results[t].result # AI_RESPONSE_MISSING

\* No allowed phrase stands at the start of the text or inside it.
NoPhraseIn(rest) ==
    \A k \in 1..Len(CLASSIFICATION_PHRASES) :
        /\ ~StartsWith(rest, CLASSIFICATION_PHRASES[k])
        /\ ~Contains(rest, CLASSIFICATION_PHRASES[k])

\* C16: when the remainder of the line that sets a requested ticker's entry
\* neither starts with nor contains an allowed phrase, the verdict is the
\* unclear sentinel and the reasoning is the whole remainder.
C16_NoPhraseIsUnclearWithRemainder ==
    AnsweredByAiHandler =>
        \A t \in Requested :
            LinesFor(t) # {} =>
                LET rest == Remainder(LastLineFor(t))
                IN  NoPhraseIn(rest) => ai_results[t] = DictVal(AI_RESPONSE_UNCLEAR, rest)

C16_Witness ==
    /\ AnsweredByAiHandler
    /\ \E t \in Requested :
            /\ LinesFor(t) # {}
            /\ NoPhraseIn(Remainder(LastLineFor(t)))
            /\ ai_results[t] = DictVal(AI_RESPONSE_UNCLEAR, <<"Maybe", SP, "Both">>)

\* The separators of the reasoning, in the order they are tried.
Separators == << <<"|", SP, "Reasoning", ":">>, <<"|">>, <<"Reasoning", ":">>, <<"-">> >>

\* The text after the phrase with the first separator that matches removed.
ReasoningAfter(after) ==
    LET hits == {k \in 1..Len(Separators) : StartsWith(after, Separators[k])}
    IN  IF hits # {}
            THEN LET first == CHOOSE k \in hits : \A j \in hits : k <= j
                 IN  Strip(Drop(after, Len(Separators[first])))
        ELSE IF after # <<>> THEN after
        ELSE REASONING_NOT_PROVIDED

\* C17: when the remainder of the line that sets a requested ticker's entry
\* starts with an allowed phrase, the verdict is that phrase and the
\* reasoning is the text after it with the first matching separator removed,
\* the text itself when no separator matches, the placeholder when nothing
\* is left; after '| Reasoning: foo' the reasoning is 'foo'.
C17_PhraseAtStartReasoningAfterSeparator ==
    AnsweredByAiHandler =>
        \A t \in Requested :
            LinesFor(t) # {} =>
                LET rest == Remainder(LastLineFor(t))
                IN  \A k \in 1..Len(CLASSIFICATION_PHRASES) :
                        StartsWith(rest, CLASSIFICATION_PHRASES[k]) =>
                            LET after == Strip(Drop(rest, Len(CLASSIFICATION_PHRASES[k])))
                            IN  /\ ai_results[t].result = CLASSIFICATION_PHRASES[k]
                                /\ ai_results[t].reasoning = ReasoningAfter(after)
                                /\ after = <<"|", SP, "Reasoning", ":", SP, "foo">>
                                     => ai_results[t].reasoning = <<"foo">>

\* The answer '<phrase> | Reasoning: foo' was parsed.
C17_Witness ==
    /\ AnsweredByAiHandler
    /\ \E t \in Requested :
            /\ LinesFor(t) # {}
            /\ Remainder(LastLineFor(t))
                   = OUTPUT_ROUND_UP \o <<SP, "|", SP, "Reasoning", ":", SP, "foo">>
            /\ ai_results[t] = DictVal(OUTPUT_ROUND_UP, <<"foo">>)

\* --------------------------------------------- properties of the records
\* The reverse-split records of the run that still wait for a classification.
PendingRecords ==
    {i \in 1..Len(initial_records) :
        /\ IsReverseRecord(initial_records[i])
        /\ initial_records[i].fractional_share_handling = StrVal(PENDING)}

\* C18: a reverse-split record is created with 'Pending AI Analysis', its
\* classification is changed exactly once, by the merge that follows the
\* batch response or failure, and the CSV and notification steps do not
\* change it: before the merge every reverse-split record is pending, a
\* record changes only in the merge step and only from pending, after the
\* merge the records stay as they are, and a run that is not interrupted
\* ends with no record left pending.
C18_ChangedExactlyOnceAtMerge ==
    /\ [](script = "run_split_checker" =>
            /\ "merge" \notin steps_done =>
                    \A i \in 1..Len(initial_records) :
                        IsReverseRecord(initial_records[i]) => i \in PendingRecords
            /\ "merge" \in steps_done => PendingRecords = {}
            /\ (pc = "done" /\ exit_kind # "interrupted") => PendingRecords = {})
    /\ [][script = "run_split_checker" =>
            /\ \A i \in 1..Len(initial_records) :
                    initial_records'[i] # initial_records[i] => (pc = "merge" /\ i \in PendingRecords)
            /\ "merge" \in steps_done => final_analyzed_data' = final_analyzed_data]_vars

C20_HistorySavedOnceOnEveryExit == pc = "done" => saves = 1

\* The keys of the sends that returned True in this run.
SuccessfulKeys == {sends[k].key : k \in {j \in 1..Len(sends) : sends[j].success}}

\* The keys of the sends that returned False in this run.
FailedKeys == {sends[k].key : k \in {j \in 1..Len(sends) : ~sends[j].success}}

\* C21: a key enters the notification history only by a successful send:
\* at every point of a run the history kept in memory, the set the
\* notification loop builds and, once the run has ended, the set handed to
\* save_notified_history hold only keys that were loaded at the start of the
\* run or whose send returned True in the run; the key of a failed send that
\* was not loaded and had no successful send stays out of them.
C21_HistoryGrowsOnlyBySuccess ==
    ScriptRuns =>
        /\ notified_keys_history \subseteq loaded_history \cup SuccessfulKeys
        /\ current_run_notified_keys \subseteq loaded_history \cup SuccessfulKeys
        /\ \A key \in FailedKeys \ (loaded_history \cup SuccessfulKeys) :
                key \notin notified_keys_history \cup current_run_notified_keys

\* C21 witness: a finished run in which one send failed and another
\* succeeded; the saved file holds the key of the second and not of the first.
C21_Witness ==
    /\ pc = "done"
    /\ saves = 1
    /\ exit_kind = "normal"
    /\ \E failed \in FailedKeys, sent \in SuccessfulKeys :
          /\ failed # sent
          /\ failed \notin loaded_history
          /\ sent \in Range(history_file)
          /\ failed \notin Range(history_file)

\* C22: every key whose send succeeded in a run is in the history the run
\* saves at its end, also when the run is interrupted or fails after the
\* send and before the notification loop has finished: when the run of
\* run_split_checker.py has ended and has saved the history, the set it
\* handed to save_notified_history holds the key of every successful send.
C22_SuccessfulKeysAreSaved ==
    (/\ script = "run_split_checker"
     /\ pc = "done"
     /\ saves = 1)
        => SuccessfulKeys \subseteq notified_keys_history

\* C23: within one run no two sends are attempted for the same key, also
\* when the scraped table holds two rows with the same ticker and ex-date:
\* the sends of a run have pairwise different keys.
C23_OneSendPerKey ==
    ScriptRuns =>
        \A k1, k2 \in 1..Len(sends) : sends[k1].key = sends[k2].key => k1 = k2

\* C24: the notification history never loses a key across runs: no step of
\* a run takes a key out of the history file, so the keys in the file after
\* the run are a superset of the keys in it before the run, a failed or
\* partly completed read at the start of the run included.
C24_HistoryFileNeverLosesKey ==
    [][Range(history_file) \subseteq Range(history_file')]_vars

\* The network call of the run was issued and failed.
ServiceCallFailed == service.kind \in {"call_error", "no_text"}

\* The CSV step has run and has written nothing although there were records.
CsvSaveFailed == "csv" \in steps_done /\ final_analyzed_data # <<>> /\ csv_file = <<>>

\* The notification loop has visited every record: each record whose key was
\* not in the loaded history has a send.
LoopVisitedAll ==
    \A i \in 1..Len(final_analyzed_data) :
        \/ NotificationKey(final_analyzed_data[i]) \in loaded_history
        \/ \E k \in 1..Len(sends) : sends[k].index = i

\* C25: after a failed service call the run of run_split_checker.py goes on
\* in the order of a successful one: the CSV step never comes before the
\* merge step nor the notification step before the CSV step, and a run that
\* is not interrupted ends normally with the merge, the CSV save and the
\* notification step all executed, the notification loop having visited
\* every record when a webhook is set, also when the CSV save failed.
C25_RunContinuesAfterFailedCall ==
    (script = "run_split_checker" /\ ServiceCallFailed) =>
        /\ "csv" \in steps_done => "merge" \in steps_done
        /\ "notify" \in steps_done => "csv" \in steps_done
        /\ (pc = "done" /\ exit_kind # "interrupted") =>
              /\ exit_kind = "normal"
              /\ {"merge", "csv", "notify"} \subseteq steps_done
              /\ webhook => LoopVisitedAll

\* C25 witness: a finished run whose service call failed and whose CSV save
\* failed, and which still attempted a notification.
C25_Witness ==
    /\ script = "run_split_checker"
    /\ service.kind = "call_error"
    /\ pc = "done"
    /\ exit_kind = "normal"
    /\ CsvSaveFailed
    /\ \E k \in 1..Len(sends) :
          final_analyzed_data[sends[k].index].fractional_share_handling = DictVal(AI_API_ERROR, <<>>)

\* The records of the run, before and after the merge.
RunRecords == Range(initial_records) \cup Range(final_analyzed_data)

\* C26: get_exchange_cached issues at most one external lookup per ticker
\* within a run of run_split_checker.py: whatever the first call for a
\* ticker gave (an exchange, none, an HTTP failure, another failure), the
\* ticker is in the cache with that value after it, no second lookup is
\* issued for it, and every record of the ticker carries the cached value.
C26_OneLookupPerTicker ==
    script = "run_split_checker" =>
        /\ DOMAIN lookups = DOMAIN exchange_cache
        /\ \A t \in DOMAIN lookups : lookups[t] = 1
        /\ \A r \in RunRecords :
              /\ r.Ticker \in DOMAIN exchange_cache
              /\ r.Exchange = exchange_cache[r.Ticker]

\* C26 witness: two records of one ticker after a lookup that failed with an
\* HTTP error, and one lookup issued for the ticker.
C26_Witness ==
    /\ script = "run_split_checker"
    /\ Len(initial_records) = 2
    /\ initial_records[1].Ticker = initial_records[2].Ticker
    /\ initial_records[1].Exchange = <<"Lookup Failed (HTTP)">>
    /\ initial_records[2].Exchange = <<"Lookup Failed (HTTP)">>
    /\ lookups[initial_records[1].Ticker] = 1
====
